---- MODULE Spec2Model ----
(***************************************************************************)
(* Model of calculateUserAndProblemSkills.py: the static code-feature      *)
(* extractor (five classifiers over a Python syntax tree), the cross-index *)
(* aggregator solution_features and the HTTP boundary lambda_handler.      *)
(*                                                                         *)
(* A source text is represented by the syntax tree ast.parse builds for it *)
(* (or by a marker for a text that does not parse).  Syntax-tree nodes are *)
(* records carrying the fields of the corresponding ast class; a Python    *)
(* dict is a function whose DOMAIN is the dict's key set.                  *)
(***************************************************************************)
EXTENDS Integers, Sequences, FiniteSets, TLC

(***************************************************************************)
(* Bounds of the explored input space.                                     *)
(***************************************************************************)
MaxCalleeDepth == 2
MaxTargets == 2
MaxGenerators == 2
MaxSolutions == 3

(***************************************************************************)
(* Python dicts.                                                           *)
(***************************************************************************)
EmptyDict == [k \in {} |-> TRUE]

\* d[k] = v
Put(d, k, v) ==
  IF k \in DOMAIN d THEN [d EXCEPT ![k] = v] ELSE d @@ (k :> v)

\* d[k] with a default for a missing key (used by the properties only)
Get(d, k, dflt) == IF k \in DOMAIN d THEN d[k] ELSE dflt

(***************************************************************************)
(* Syntax-tree nodes (the classes of the ast module that the classifiers   *)
(* look at).  Optional and list-valued fields are sequences of nodes.      *)
(***************************************************************************)
Load == [type |-> "Load"]
Store == [type |-> "Store"]
Del == [type |-> "Del"]
OpNode(name) == [type |-> name]

ast_Name(id, ctx) == [type |-> "Name", id |-> id, ctx |-> ctx]
ast_Constant == [type |-> "Constant"]
ast_Tuple(elts, ctx) == [type |-> "Tuple", elts |-> elts, ctx |-> ctx]
ast_List(elts, ctx) == [type |-> "List", elts |-> elts, ctx |-> ctx]
ast_Set(elts) == [type |-> "Set", elts |-> elts]
ast_Dict(keys, values) == [type |-> "Dict", keys |-> keys, values |-> values]
ast_Attribute(value, attr, ctx) ==
  [type |-> "Attribute", value |-> value, attr |-> attr, ctx |-> ctx]
ast_Subscript(value, slice, ctx) ==
  [type |-> "Subscript", value |-> value, slice |-> slice, ctx |-> ctx]
ast_Slice(lower, upper) == [type |-> "Slice", lower |-> lower, upper |-> upper]
ast_keyword(arg, value) == [type |-> "keyword", arg |-> arg, value |-> value]
ast_Call(func, args, keywords) ==
  [type |-> "Call", func |-> func, args |-> args, keywords |-> keywords]
ast_arguments == [type |-> "arguments"]
ast_Lambda(body) == [type |-> "Lambda", args |-> ast_arguments, body |-> body]
ast_Compare(left, ops, comparators) ==
  [type |-> "Compare", left |-> left, ops |-> ops, comparators |-> comparators]
ast_BinOp(left, op, right) ==
  [type |-> "BinOp", left |-> left, op |-> op, right |-> right]
ast_UnaryOp(op, operand) == [type |-> "UnaryOp", op |-> op, operand |-> operand]
ast_BoolOp(op, values) == [type |-> "BoolOp", op |-> op, values |-> values]
ast_IfExp(test, body, orelse) ==
  [type |-> "IfExp", test |-> test, body |-> body, orelse |-> orelse]
ast_comprehension(target, iter, ifs) ==
  [type |-> "comprehension", target |-> target, iter |-> iter, ifs |-> ifs]
ast_ListComp(elt, generators) ==
  [type |-> "ListComp", elt |-> elt, generators |-> generators]
ast_SetComp(elt, generators) ==
  [type |-> "SetComp", elt |-> elt, generators |-> generators]
ast_GeneratorExp(elt, generators) ==
  [type |-> "GeneratorExp", elt |-> elt, generators |-> generators]
ast_DictComp(key, value, generators) ==
  [type |-> "DictComp", key |-> key, value |-> value, generators |-> generators]
ast_Expr(value) == [type |-> "Expr", value |-> value]
ast_Assign(targets, value) ==
  [type |-> "Assign", targets |-> targets, value |-> value]
ast_AugAssign(target, op, value) ==
  [type |-> "AugAssign", target |-> target, op |-> op, value |-> value]
ast_Delete(targets) == [type |-> "Delete", targets |-> targets]
ast_alias(name, asname) == [type |-> "alias", name |-> name, asname |-> asname]
ast_Import(names) == [type |-> "Import", names |-> names]
ast_ImportFrom(module, names) ==
  [type |-> "ImportFrom", module |-> module, names |-> names]
ast_Pass == [type |-> "Pass"]
ast_Return(value) == [type |-> "Return", value |-> value]
ast_If(test, body, orelse) ==
  [type |-> "If", test |-> test, body |-> body, orelse |-> orelse]
ast_While(test, body, orelse) ==
  [type |-> "While", test |-> test, body |-> body, orelse |-> orelse]
ast_FunctionDef(name, body) ==
  [type |-> "FunctionDef", name |-> name, args |-> ast_arguments, body |-> body]
ast_ClassDef(name, body) == [type |-> "ClassDef", name |-> name, body |-> body]
ast_Module(body) == [type |-> "Module", body |-> body]

\* ast.iter_child_nodes: the child nodes of a node, in the order of _fields
iter_child_nodes(node) ==
  CASE node.type = "Module" -> node.body
    [] node.type = "Expr" -> <<node.value>>
    [] node.type = "Assign" -> node.targets \o <<node.value>>
    [] node.type = "AugAssign" -> <<node.target, node.op, node.value>>
    [] node.type = "Delete" -> node.targets
    [] node.type = "Name" -> <<node.ctx>>
    [] node.type \in {"Tuple", "List"} -> node.elts \o <<node.ctx>>
    [] node.type = "Set" -> node.elts
    [] node.type = "Dict" -> node.keys \o node.values
    [] node.type = "Attribute" -> <<node.value, node.ctx>>
    [] node.type = "Subscript" -> <<node.value, node.slice, node.ctx>>
    [] node.type = "Slice" -> node.lower \o node.upper
    [] node.type = "keyword" -> <<node.value>>
    [] node.type = "Call" -> <<node.func>> \o node.args \o node.keywords
    [] node.type = "Lambda" -> <<node.args, node.body>>
    [] node.type = "Compare" -> <<node.left>> \o node.ops \o node.comparators
    [] node.type = "BinOp" -> <<node.left, node.op, node.right>>
    [] node.type = "UnaryOp" -> <<node.op, node.operand>>
    [] node.type = "BoolOp" -> <<node.op>> \o node.values
    [] node.type = "IfExp" -> <<node.test, node.body, node.orelse>>
    [] node.type = "comprehension" -> <<node.target, node.iter>> \o node.ifs
    [] node.type \in {"ListComp", "SetComp", "GeneratorExp"} ->
         <<node.elt>> \o node.generators
    [] node.type = "DictComp" -> <<node.key, node.value>> \o node.generators
    [] node.type \in {"Import", "ImportFrom"} -> node.names
    [] node.type = "Return" -> node.value
    [] node.type \in {"If", "While"} -> <<node.test>> \o node.body \o node.orelse
    [] node.type = "FunctionDef" -> <<node.args>> \o node.body
    [] node.type = "ClassDef" -> node.body
    [] OTHER -> <<>>

\* ast.walk: all nodes below (and including) a node, breadth first.  The
\* queue of ast.walk holds, one after the other, the nodes of each depth of
\* the tree: the children of the nodes of a level are the next level.
RECURSIVE children_of_level(_)
children_of_level(nodes) ==
  IF nodes = <<>> THEN <<>>
  ELSE iter_child_nodes(Head(nodes)) \o children_of_level(Tail(nodes))

RECURSIVE walk_levels(_)
walk_levels(level) ==
  IF level = <<>> THEN <<>>
  ELSE level \o walk_levels(children_of_level(level))

walk(tree) == walk_levels(<<tree>>)

\* result = defaultdict(int), then result[key] += 1 once for every element
\* of a collection of (tagged) keys, then dict(result): every key that
\* occurs is mapped to the number of its occurrences.  An element of `hits`
\* is a pair <<tag, key>>, the tag telling the occurrences apart.
CountDict(hits) ==
  [key \in {h[2] : h \in hits} |-> Cardinality({h \in hits : h[2] = key})]

(***************************************************************************)
(* Constructs                                                              *)
(***************************************************************************)
\* Construct tester functions
MultiTargetAssignment(ast_node) == ast_node.targets[1].type = "Tuple"

FilteredComprehension(ast_node) ==
  \E i \in 1..Len(ast_node.generators) : Len(ast_node.generators[i].ifs) > 0

MultilevelComprehension(ast_node) == Len(ast_node.generators) > 1

ChainedCompare(ast_node) == Len(ast_node.ops) > 1

KeywordArgumentUsage(ast_node) == Len(ast_node.keywords) > 0

\* An entry of a construct specification: a construct name (a str) or a
\* tester function, which is called on the node and lends its __name__
Plain(name) == [isstr |-> TRUE, name |-> name]
Tester(name) == [isstr |-> FALSE, name |-> name]

CallTester(x, node) ==
  CASE x.name = "MultiTargetAssignment" -> MultiTargetAssignment(node)
    [] x.name = "FilteredComprehension" -> FilteredComprehension(node)
    [] x.name = "MultilevelComprehension" -> MultilevelComprehension(node)
    [] x.name = "ChainedCompare" -> ChainedCompare(node)
    [] x.name = "KeywordArgumentUsage" -> KeywordArgumentUsage(node)

comprehension ==
  <<Plain("Comprehension"), Tester("FilteredComprehension"),
    Tester("MultilevelComprehension")>>

\* (variant: the Display counterpart is left out)
makeComprehensionSpec_noDisplay(collection_type) ==
  <<Plain(collection_type \o "Comprehension")>> \o comprehension

makeComprehensionSpec(collection_type) ==
  <<Plain(collection_type \o "Comprehension"),
    Plain(collection_type \o "Display")>> \o comprehension

construct_def_map ==
  [FunctionDef |-> <<Plain("FunctionDef")>>,
   ClassDef |-> <<Plain("ClassDef")>>,
   IfExp |-> <<Plain("IfExpression")>>,
   Assign |-> <<Plain("Assignment"), Tester("MultiTargetAssignment")>>,
   AugAssign |-> <<Plain("AugmentedAssignment")>>,
   List |-> <<Plain("ListDisplay")>>,
   ListComp |-> makeComprehensionSpec("List"),
   Set |-> <<Plain("SetDisplay")>>,
   SetComp |-> makeComprehensionSpec("Set"),
   Dict |-> <<Plain("DictionaryDisplay")>>,
   DictComp |-> makeComprehensionSpec("Dictionary"),
   GeneratorExp |-> <<Plain("GeneratorExpression")>> \o comprehension,
   Compare |-> <<Tester("ChainedCompare")>>,
   Subscript |-> <<Plain("Subscription")>>,
   Slice |-> <<Plain("Slicing")>>,
   Call |-> <<Tester("KeywordArgumentUsage")>>]

\* for node in ast.walk(tree): for x in construct_def_map[type(node)]:
\* the i-th node increments the name of its j-th entry when the entry is a
\* str or a tester that the node passes
getAllConstructs(tree) ==
  LET w == walk(tree)
      Increments(i) ==
        IF w[i].type \in DOMAIN construct_def_map
        THEN LET xs == construct_def_map[w[i].type]
             IN {<<<<i, j>>, xs[j].name>> :
                   j \in {k \in 1..Len(xs) :
                            xs[k].isstr \/ CallTester(xs[k], w[i])}}
        ELSE {}
  IN CountDict(UNION {Increments(i) : i \in 1..Len(w)})

(***************************************************************************)
(* Statements                                                              *)
(***************************************************************************)
countNodesOfGivenTypes(tree, node_types) ==
  LET w == walk(tree)
  IN CountDict({<<i, w[i].type>> : i \in {k \in 1..Len(w) : w[k].type \in node_types}})

statementNodeTypes ==
  {"While", "For", "Return", "If", "Continue", "Break", "Try", "With",
   "Raise", "Pass", "Assert", "Del", "Yield"}

getAllStatements(tree) == countNodesOfGivenTypes(tree, statementNodeTypes)

(***************************************************************************)
(* Expressions                                                             *)
(***************************************************************************)
\* a unary, binary or boolean operation increments the name of its operator,
\* a comparison the name of each operator of its chain
getAllExpr(tree) ==
  LET w == walk(tree)
      Increments(i) ==
        IF w[i].type \in {"UnaryOp", "BinOp", "BoolOp"}
        THEN {<<<<i, 1>>, w[i].op.type>>}
        ELSE IF w[i].type = "Compare"
        THEN {<<<<i, j>>, w[i].ops[j].type>> : j \in 1..Len(w[i].ops)}
        ELSE {}
  IN CountDict(UNION {Increments(i) : i \in 1..Len(w)})

(***************************************************************************)
(* Functions                                                               *)
(***************************************************************************)
\* FuncCallVisitor; its state, the deque _name, is threaded through the calls
\* deque.appendleft
appendleft(name, x) == <<x>> \o name

visit_Name(node, name) == appendleft(name, node.id)

\* (variant: the separator of the original ".".join is kept)
visit_Attribute_dotted(node, name) ==
  appendleft(appendleft(name, node.attr), ".")

\* node.attr always exists on an Attribute node, so the except branch
\* (generic_visit) is never taken
visit_Attribute(node, name) == appendleft(appendleft(name, node.attr), "")

RECURSIVE visit(_, _)
RECURSIVE visit_each(_, _)
\* NodeVisitor.generic_visit: visit every child node, field by field
generic_visit(node, name) == visit_each(iter_child_nodes(node), name)

\* NodeVisitor.visit: dispatch on the class of the node
visit(node, name) ==
  CASE node.type = "Name" -> visit_Name(node, name)
    [] node.type = "Attribute" -> visit_Attribute(node, name)
    [] OTHER -> generic_visit(node, name)

visit_each(nodes, name) ==
  IF nodes = <<>> THEN name
  ELSE visit_each(Tail(nodes), visit(Head(nodes), name))

\* the name property: ''.join(self._name)
RECURSIVE join(_)
join(name) == IF name = <<>> THEN "" ELSE Head(name) \o join(Tail(name))

\* the name recorded for one Call node
call_name(node) == join(visit(node.func, <<>>))

\* func_calls holds the name of every Call node; the result counts them
getFuncCalls(tree) ==
  LET w == walk(tree)
  IN CountDict({<<i, call_name(w[i])>> : i \in {k \in 1..Len(w) : w[k].type = "Call"}})

(***************************************************************************)
(* Imports                                                                 *)
(***************************************************************************)
\* alias.asname if alias.asname != None else alias.name  (None is <<>>)
imported_name(alias) ==
  IF alias.asname # <<>> THEN alias.asname[1] ELSE alias.name

\* (a is always a tree here, so the isinstance test at the top passes)
getAllImports(a) ==
  LET w == walk(a)
      imports ==
        UNION {{imported_name(w[i].names[j]) : j \in 1..Len(w[i].names)} :
                 i \in {k \in 1..Len(w) : w[k].type \in {"Import", "ImportFrom"}}}
  IN [item \in imports |-> TRUE]

(***************************************************************************)
(* code_features()                                                         *)
(***************************************************************************)
\* A source text: the tree ast.parse returns for it, or no tree when the
\* text is not valid Python (ast.parse raises SyntaxError)
ValidSource(tree) == [valid |-> TRUE, tree |-> <<tree>>]
InvalidSource == [valid |-> FALSE, tree |-> <<>>]

Raised(exc) == [raised |-> TRUE, exc |-> exc, value |-> EmptyDict]
Returned(v) == [raised |-> FALSE, exc |-> "", value |-> v]

FeatureTypes ==
  <<"statements", "functions", "imports", "expressions", "constructs">>

code_features(src) ==
  IF ~src.valid THEN Raised("SyntaxError")
  ELSE LET tree == src.tree[1]
       IN Returned([statements |-> getAllStatements(tree),
                    functions |-> getFuncCalls(tree),
                    imports |-> getAllImports(tree),
                    expressions |-> getAllExpr(tree),
                    constructs |-> getAllConstructs(tree)])

(***************************************************************************)
(* solution_features(): one insertion of the aggregation loop              *)
(***************************************************************************)
\* (variant: the dict is created without the membership test)
ensure_reset(d, k) == Put(d, k, EmptyDict)

\* if not k in d: d[k] = {}
ensure(d, k) == IF k \notin DOMAIN d THEN Put(d, k, EmptyDict) ELSE d

\* (variant: the feature's dict is replaced instead of extended)
insert_problemSkills_overwrite(ps, problemKey, userKey, featureType, feature) ==
  LET d1 == ensure(ps, problemKey)
      d2 == [d1 EXCEPT ![problemKey] = ensure(@, featureType)]
      d3 == [d2 EXCEPT ![problemKey][featureType] = ensure(@, feature)]
  IN [d3 EXCEPT ![problemKey][featureType][feature] = (userKey :> TRUE)]

\* problemSkills[problemKey][featureType][feature][userKey] = True, after
\* creating the missing intermediate dicts
insert_problemSkills(ps, problemKey, userKey, featureType, feature) ==
  LET d1 == ensure(ps, problemKey)
      d2 == [d1 EXCEPT ![problemKey] = ensure(@, featureType)]
      d3 == [d2 EXCEPT ![problemKey][featureType] = ensure(@, feature)]
  IN [d3 EXCEPT ![problemKey][featureType][feature] = Put(@, userKey, TRUE)]

\* (variant: the leaf is keyed by userKey, as in the problemSkills half)
insert_userSkills_wrongKey(us, problemKey, userKey, featureType, feature) ==
  LET d1 == ensure(us, userKey)
      d2 == [d1 EXCEPT ![userKey] = ensure(@, featureType)]
      d3 == [d2 EXCEPT ![userKey][featureType] = ensure(@, feature)]
  IN [d3 EXCEPT ![userKey][featureType][feature] = Put(@, userKey, TRUE)]

\* (variant: the feature's dict is replaced instead of extended)
insert_userSkills_overwrite(us, problemKey, userKey, featureType, feature) ==
  LET d1 == ensure(us, userKey)
      d2 == [d1 EXCEPT ![userKey] = ensure(@, featureType)]
      d3 == [d2 EXCEPT ![userKey][featureType] = ensure(@, feature)]
  IN [d3 EXCEPT ![userKey][featureType][feature] = (problemKey :> TRUE)]

\* userSkills[userKey][featureType][feature][problemKey] = True, likewise
insert_userSkills(us, problemKey, userKey, featureType, feature) ==
  LET d1 == ensure(us, userKey)
      d2 == [d1 EXCEPT ![userKey] = ensure(@, featureType)]
      d3 == [d2 EXCEPT ![userKey][featureType] = ensure(@, feature)]
  IN [d3 EXCEPT ![userKey][featureType][feature] = Put(@, problemKey, TRUE)]

(***************************************************************************)
(* lambda_handler(): the request body                                      *)
(***************************************************************************)
\* A body string: its length and, when it is a JSON text, the document it
\* encodes
EmptyBody == [len |-> 0, doc |-> <<>>]
MalformedBody == [len |-> 1, doc |-> <<>>]
json_dumps(v) == [len |-> 2, doc |-> <<v>>]
json_loads(body) ==
  IF body.doc = <<>> THEN Raised("JSONDecodeError") ELSE Returned(body.doc[1])

(***************************************************************************)
(* Inputs                                                                  *)
(***************************************************************************)
N(id) == ast_Name(id, Load)
S(id) == ast_Name(id, Store)
Program(body) == ValidSource(ast_Module(body))

SeqsUpTo(set, n) == UNION {[1..k -> set] : k \in 1..n}

\* callee expressions: names, attribute accesses, calls on a call's result,
\* subscripts and a lambda, nested up to a depth
ArgLists == {<<>>, <<N("x")>>, <<N("x"), N("y")>>, <<ast_Constant>>}

RECURSIVE Callees(_)
Callees(d) ==
  IF d = 0 THEN {N("f"), N("method")}
  ELSE LET c == Callees(d - 1)
       IN c \cup {ast_Attribute(v, a, Load) : v \in c, a \in {"method", "g"}}
            \cup {ast_Call(v, args, <<>>) : v \in c, args \in ArgLists}
            \cup {ast_Subscript(v, N("i"), Load) : v \in c}
            \cup {ast_Lambda(ast_Constant)}

KeywordLists == {<<>>, <<ast_keyword("end", ast_Constant)>>}

CallSources ==
  {Program(<<ast_Expr(ast_Call(c, <<>>, kw))>>) :
     c \in Callees(MaxCalleeDepth), kw \in KeywordLists}

\* assignment statements over every shape of target list
TargetShapes ==
  {S("a"),
   ast_Tuple(<<S("a")>>, Store),
   ast_Tuple(<<S("a"), S("b")>>, Store),
   ast_List(<<S("a"), S("b")>>, Store),
   ast_Subscript(N("a"), N("i"), Store),
   ast_Attribute(N("o"), "x", Store)}

AssignSources ==
  {Program(<<ast_Assign(targets, ast_Tuple(<<ast_Constant, ast_Constant>>, Load))>>) :
     targets \in SeqsUpTo(TargetShapes, MaxTargets)}

\* comprehensions of the four kinds, with and without filters, over one or
\* more for clauses, around a plain, a display or a nested comprehension
Cond == ast_Compare(N("x"), <<OpNode("Gt")>>, <<ast_Constant>>)
Generators ==
  {ast_comprehension(S("x"), N("y"), ifs) : ifs \in {<<>>, <<Cond>>, <<Cond, Cond>>}}
Elts ==
  {N("x"),
   ast_List(<<N("x")>>, Load),
   ast_Dict(<<N("x")>>, <<N("x")>>),
   ast_SetComp(N("x"), <<ast_comprehension(S("x"), N("z"), <<>>)>>)}

Comprehensions ==
  UNION {{ast_ListComp(e, g), ast_SetComp(e, g), ast_GeneratorExp(e, g),
          ast_DictComp(e, e, g)} :
            e \in Elts, g \in SeqsUpTo(Generators, MaxGenerators)}

CompSources == {Program(<<ast_Expr(c)>>) : c \in Comprehensions}

\* further statements, expressions and imports
SrcImportOs == Program(<<ast_Import(<<ast_alias("os", <<>>)>>)>>)
SrcAssignImport ==
  Program(<<ast_Assign(<<ast_Tuple(<<S("a"), S("b")>>, Store)>>,
                       ast_Tuple(<<ast_Constant, ast_Constant>>, Load)),
            ast_Import(<<ast_alias("os", <<>>)>>)>>)
SrcPrint ==
  Program(<<ast_Expr(ast_Call(N("print"), <<ast_Constant>>,
                              <<ast_keyword("end", ast_Constant)>>)),
            ast_Expr(ast_Call(N("print"), <<ast_Constant>>, <<>>))>>)

MiscSources ==
  {SrcImportOs, SrcAssignImport, SrcPrint,
   Program(<<ast_Import(<<ast_alias("os", <<>>)>>),
             ast_Import(<<ast_alias("os", <<>>), ast_alias("numpy", <<"np">>)>>),
             ast_ImportFrom("os", <<ast_alias("path", <<"p">>), ast_alias("sep", <<>>)>>)>>),
   Program(<<ast_Delete(<<ast_Name("a", Del), ast_Name("b", Del)>>), ast_Pass>>),
   Program(<<ast_Expr(ast_Compare(N("a"), <<OpNode("Lt"), OpNode("LtE")>>,
                                  <<N("b"), N("c")>>))>>),
   Program(<<ast_FunctionDef("g",
               <<ast_While(ast_BoolOp(OpNode("And"), <<N("a"), ast_UnaryOp(OpNode("Not"), N("b"))>>),
                   <<ast_AugAssign(S("a"), OpNode("Add"), ast_Constant)>>, <<>>),
                 ast_If(N("a"), <<ast_Return(<<ast_IfExp(N("a"), N("b"), N("c"))>>)>>,
                        <<ast_Return(<<>>)>>)>>)>>),
   Program(<<ast_ClassDef("C", <<ast_Pass>>),
             ast_Expr(ast_Subscript(N("a"), ast_Slice(<<ast_Constant>>, <<>>), Load)),
             ast_Expr(ast_Set(<<ast_BinOp(N("a"), OpNode("Add"), N("b"))>>))>>)}

Sources == CallSources \cup AssignSources \cup CompSources \cup MiscSources

\* the batches: one solution of any kind, or up to MaxSolutions solutions
\* taken from a few sources with common features, one of them not valid
Problems == {"P1", "P2"}
Users == {"U1", "U2"}
CatalogSources == {SrcImportOs, SrcAssignImport, SrcPrint, InvalidSource}

\* the two-level dict  problemKey -> userKey -> src  holding the given pairs
BatchOf(pairs, srcOf) ==
  [p \in {q[1] : q \in pairs} |->
     [u \in {q[2] : q \in {r \in pairs : r[1] = p}} |-> srcOf[<<p, u>>]]]

SingleBatches ==
  {BatchOf({<<"P1", "U1">>}, [q \in {<<"P1", "U1">>} |-> src]) :
     src \in Sources \cup {InvalidSource}}

CatalogBatchesOver(srcs) ==
  UNION {{BatchOf(pairs, srcOf) : srcOf \in [pairs -> srcs]} :
           pairs \in {ps \in SUBSET (Problems \X Users) :
                        Cardinality(ps) <= MaxSolutions}}

Batches == SingleBatches \cup CatalogBatchesOver(CatalogSources)

Bodies == {EmptyBody, MalformedBody} \cup {json_dumps(b) : b \in Batches}

Events == [httpMethod : {"GET", "POST"}, body : Bodies]

\* the (problemKey, userKey) pairs of a batch
PairsOf(solutions) ==
  {<<p, u>> : p \in DOMAIN solutions, u \in Users} \cap
  UNION {{<<p, u>> : u \in DOMAIN solutions[p]} : p \in DOMAIN solutions}

\* the (featureType, feature) entries of an analysis record, as insertions
\* for one pair
InsertionsOf(p, u, record) ==
  UNION {{<<p, u, FeatureTypes[i], f>> : f \in DOMAIN record[FeatureTypes[i]]} :
           i \in 1..Len(FeatureTypes)}

(***************************************************************************)
(* State                                                                   *)
(***************************************************************************)
VARIABLES
  pc,            \* where the request is: lambda_handler, the loops, the end
  event,         \* the event given to lambda_handler
  solutions,     \* the batch given to solution_features (dummy)
  problemSkills,
  userSkills,
  cur,           \* <<problemKey, userKey>> of the loops, <<>> before the first
  done,          \* the (problemKey, userKey) pairs already taken by the loops
  analysis,      \* code_features(src) of the current pair
  pending,       \* the insertions of the feature loops not yet made
  inserted,      \* the insertions made
  result,        \* what solution_features returned, <<>> before
  response,      \* what lambda_handler returned, <<>> before
  error          \* the exception that ended the request, "" if none

vars == <<pc, event, solutions, problemSkills, userSkills, cur, done,
          analysis, pending, inserted, result, response, error>>

NoAnalysis ==
  [statements |-> EmptyDict, functions |-> EmptyDict, imports |-> EmptyDict,
   expressions |-> EmptyDict, constructs |-> EmptyDict]

Init ==
  /\ event \in Events
  /\ pc = "lambda_handler"
  /\ solutions = EmptyDict
  /\ problemSkills = EmptyDict
  /\ userSkills = EmptyDict
  /\ cur = <<>>
  /\ done = {}
  /\ analysis = NoAnalysis
  /\ pending = {}
  /\ inserted = {}
  /\ result = <<>>
  /\ response = <<>>
  /\ error = ""

Raise(exc) ==
  /\ pc' = "error"
  /\ error' = exc

(***************************************************************************)
(* lambda_handler, for an event with the keys httpMethod and body          *)
(***************************************************************************)
\* event['httpMethod'] == 'GET': dummy['httpMethod'] = 'GET' reads the local
\* variable dummy, which nothing has assigned
HandlerGet ==
  /\ pc = "lambda_handler"
  /\ event.httpMethod = "GET"
  /\ Raise("UnboundLocalError")
  /\ UNCHANGED <<event, solutions, problemSkills, userSkills, cur, done,
                 analysis, pending, inserted, result, response>>

\* another method and an empty body: dummy['httpMethod'] = 'POST', likewise
HandlerEmptyBody ==
  /\ pc = "lambda_handler"
  /\ event.httpMethod # "GET"
  /\ event.body.len = 0
  /\ Raise("UnboundLocalError")
  /\ UNCHANGED <<event, solutions, problemSkills, userSkills, cur, done,
                 analysis, pending, inserted, result, response>>

\* another method and a body: dummy = json.loads(event["body"]), then the
\* call solution_features(dummy) starts with two empty indexes
HandlerBody ==
  /\ pc = "lambda_handler"
  /\ event.httpMethod # "GET"
  /\ event.body.len > 0
  /\ LET dummy == json_loads(event.body)
     IN IF dummy.raised
        THEN /\ Raise(dummy.exc)
             /\ UNCHANGED <<solutions, problemSkills, userSkills>>
        ELSE /\ solutions' = dummy.value
             /\ problemSkills' = EmptyDict
             /\ userSkills' = EmptyDict
             /\ pc' = "for_pair"
             /\ UNCHANGED error
  /\ UNCHANGED <<event, cur, done, analysis, pending, inserted, result,
                 response>>

(***************************************************************************)
(* solution_features                                                       *)
(***************************************************************************)
\* the userKeys of problemKey p that the inner loop has not taken yet
UsersLeft(p) == {u \in DOMAIN solutions[p] : <<p, u>> \notin done}

\* the pairs the two loops can take next: the next user of the current
\* problem or, when it has none left, the first user of another problem.
\* The loops follow the key order of the dicts, which is the order of the
\* request body: any order of problems, and of users within a problem.
NextPairs ==
  IF cur # <<>> /\ UsersLeft(cur[1]) # {}
  THEN {<<cur[1], u>> : u \in UsersLeft(cur[1])}
  ELSE {q \in PairsOf(solutions) : q \notin done}

\* the loops take the next pair: analysis = code_features(src)
NextSolution ==
  /\ pc = "for_pair"
  /\ \E q \in NextPairs :
       LET problemKey == q[1]
           userKey == q[2]
           src == solutions[problemKey][userKey]
           r == code_features(src)
       IN /\ cur' = q
          /\ done' = done \cup {q}
          /\ IF r.raised
             THEN /\ Raise(r.exc)
                  /\ UNCHANGED <<analysis, pending>>
             ELSE /\ analysis' = r.value
                  /\ pending' = InsertionsOf(problemKey, userKey, r.value)
                  /\ pc' = IF pending' = {} THEN "for_pair" ELSE "for_feature"
                  /\ UNCHANGED error
  /\ UNCHANGED <<event, solutions, problemSkills, userSkills, inserted, result,
                 response>>

\* the featureType the outer feature loop is at: the first one, in the key
\* order of the analysis record, with an insertion still to make
TypeAt(i) == \E q \in pending : q[3] = FeatureTypes[i]
CurrentType ==
  FeatureTypes[CHOOSE i \in 1..Len(FeatureTypes) :
                 TypeAt(i) /\ \A j \in 1..(i - 1) : ~TypeAt(j)]

\* one pass of the body of the feature loops, for a feature of the current
\* featureType; the features of one type are taken in the key order of
\* their dict, of which every order is allowed here
InsertFeature ==
  /\ pc = "for_feature"
  /\ \E q \in pending :
       /\ q[3] = CurrentType
       /\ problemSkills' = insert_problemSkills(problemSkills, q[1], q[2], q[3], q[4])
       /\ userSkills' = insert_userSkills(userSkills, q[1], q[2], q[3], q[4])
       /\ pending' = pending \ {q}
       /\ inserted' = inserted \cup {q}
  /\ pc' = IF pending' = {} THEN "for_pair" ELSE "for_feature"
  /\ UNCHANGED <<event, solutions, cur, done, analysis, result, response,
                 error>>

\* both loops are over: return {"problemSkills": ..., "userSkills": ...}
Return ==
  /\ pc = "for_pair"
  /\ NextPairs = {}
  /\ result' = <<[problemSkills |-> problemSkills, userSkills |-> userSkills]>>
  /\ pc' = "return"
  /\ UNCHANGED <<event, solutions, problemSkills, userSkills, cur, done,
                 analysis, pending, inserted, response, error>>

\* lambda_handler wraps the result and returns
Respond ==
  /\ pc = "return"
  /\ response' = <<[isBase64Encoded |-> FALSE,
                    statusCode |-> 200,
                    headers |-> EmptyDict,
                    body |-> json_dumps(result[1])]>>
  /\ pc' = "done"
  /\ UNCHANGED <<event, solutions, problemSkills, userSkills, cur, done,
                 analysis, pending, inserted, result, error>>

Next ==
  \/ HandlerGet
  \/ HandlerEmptyBody
  \/ HandlerBody
  \/ NextSolution
  \/ InsertFeature
  \/ Return
  \/ Respond

Spec == Init /\ [][Next]_vars

(***************************************************************************)
(* The aggregation with its insertions made in any order: the insertions   *)
(* of all pairs of a batch in which every solution parses are pending at   *)
(* once and the body of the feature loops is run on them one at a time.    *)
(***************************************************************************)
ValidCatalogSources == {src \in CatalogSources : src.valid}

InitPar ==
  /\ solutions \in CatalogBatchesOver(ValidCatalogSources) \ {EmptyDict}
  /\ event = [httpMethod |-> "POST", body |-> json_dumps(solutions)]
  /\ pc = "par"
  /\ problemSkills = EmptyDict
  /\ userSkills = EmptyDict
  /\ cur = <<>>
  /\ done = PairsOf(solutions)
  /\ analysis = NoAnalysis
  /\ pending = UNION {InsertionsOf(q[1], q[2],
                                   code_features(solutions[q[1]][q[2]]).value) :
                        q \in PairsOf(solutions)}
  /\ inserted = {}
  /\ result = <<>>
  /\ response = <<>>
  /\ error = ""

ParInsert ==
  /\ pc = "par"
  /\ \E q \in pending :
       /\ problemSkills' = insert_problemSkills(problemSkills, q[1], q[2], q[3], q[4])
       /\ userSkills' = insert_userSkills(userSkills, q[1], q[2], q[3], q[4])
       /\ pending' = pending \ {q}
       /\ inserted' = inserted \cup {q}
  /\ UNCHANGED <<pc, event, solutions, cur, done, analysis, result, response,
                 error>>

ParReturn ==
  /\ pc = "par"
  /\ pending = {}
  /\ result' = <<[problemSkills |-> problemSkills, userSkills |-> userSkills]>>
  /\ pc' = "par_done"
  /\ UNCHANGED <<event, solutions, problemSkills, userSkills, cur, done,
                 analysis, pending, inserted, response, error>>

NextPar == ParInsert \/ ParReturn

SpecPar == InitPar /\ [][NextPar]_vars

(***************************************************************************)
(* Notions used by the properties                                          *)
(***************************************************************************)
\* the (problemKey, userKey, featureType, feature) quadruples of each index
QuadsOfProblemSkills(ps) ==
  UNION {UNION {UNION {{<<p, u, t, f>> : u \in DOMAIN ps[p][t][f]} :
                         f \in DOMAIN ps[p][t]} :
                  t \in DOMAIN ps[p]} :
           p \in DOMAIN ps}

QuadsOfUserSkills(us) ==
  UNION {UNION {UNION {{<<p, u, t, f>> : p \in DOMAIN us[u][t][f]} :
                         f \in DOMAIN us[u][t]} :
                  t \in DOMAIN us[u]} :
           u \in DOMAIN us}

\* every leaf of a four-level index is the presence marker True
LeavesTrue(idx) ==
  \A a \in DOMAIN idx : \A t \in DOMAIN idx[a] : \A f \in DOMAIN idx[a][t] :
    \A b \in DOMAIN idx[a][t][f] : idx[a][t][f][b] = TRUE

\* the pairs of a batch whose solution parses, and the feature presences
\* their feature records hold
ValidPairs(sols) == {q \in PairsOf(sols) : sols[q[1]][q[2]].valid}

PresenceQuads(sols) ==
  UNION {InsertionsOf(q[1], q[2], code_features(sols[q[1]][q[2]]).value) :
           q \in ValidPairs(sols)}

\* the solution the loops are at has been analysed (analysis is its record)
Analysed == cur # <<>> /\ solutions[cur[1]][cur[2]].valid
CurTree == solutions[cur[1]][cur[2]].tree[1]

\* the nodes of a tree that satisfy a test, as indexes into ast.walk
NodesOfType(tree, types) ==
  LET w == walk(tree) IN {i \in 1..Len(w) : w[i].type \in types}

Count(name) == Get(analysis.constructs, name, 0)

(***************************************************************************)
(* C1  Cross-index symmetry: in every state of the aggregation, and in the *)
(* returned result, u is under problemSkills[p][t][f] exactly when p is    *)
(* under userSkills[u][t][f].                                              *)
(***************************************************************************)
C1_CrossIndexSymmetry ==
  /\ QuadsOfProblemSkills(problemSkills) = QuadsOfUserSkills(userSkills)
  /\ result # <<>> =>
       QuadsOfProblemSkills(result[1].problemSkills) =
         QuadsOfUserSkills(result[1].userSkills)

\* a result that relates two problems and two users has been returned
C1_Witness ==
  /\ pc = "return"
  /\ \E q1, q2 \in QuadsOfProblemSkills(result[1].problemSkills) :
       q1[1] # q2[1] /\ q1[2] # q2[2]

(***************************************************************************)
(* C2  Index content equals feature presence: when solution_features has   *)
(* returned, (p, u, t, f) is in the indexes exactly when solutions[p][u]   *)
(* exists and f is a key of code_features(solutions[p][u])[t]; every leaf  *)
(* is True, whatever the count in the feature record.                      *)
(***************************************************************************)
C2_IndexIsFeaturePresence ==
  result # <<>> =>
    /\ QuadsOfProblemSkills(result[1].problemSkills) = PresenceQuads(solutions)
    /\ QuadsOfUserSkills(result[1].userSkills) = PresenceQuads(solutions)
    /\ LeavesTrue(result[1].problemSkills)
    /\ LeavesTrue(result[1].userSkills)

\* a result for a batch in which two users of one problem share a feature
\* that both feature records count twice
C2_Witness ==
  /\ pc = "return"
  /\ \E q1, q2 \in PresenceQuads(solutions) :
       /\ q1[1] = q2[1] /\ q1[2] # q2[2] /\ q1[3] = q2[3] /\ q1[4] = q2[4]
       /\ q1[3] = "functions"
       /\ code_features(solutions[q1[1]][q1[2]]).value[q1[3]][q1[4]] = 2
       /\ code_features(solutions[q2[1]][q2[2]]).value[q2[3]][q2[4]] = 2

(***************************************************************************)
(* C3  Parse-failure isolation (as claimed): a request whose batch holds   *)
(* exactly one invalid solution ends with a result that aggregates the     *)
(* valid solutions.                                                        *)
(***************************************************************************)
C3_ParseFailureIsolation ==
  (/\ pc \in {"error", "done"}
   /\ event.httpMethod # "GET"
   /\ Cardinality(PairsOf(solutions) \ ValidPairs(solutions)) = 1
   /\ ValidPairs(solutions) # {})
  => /\ result # <<>>
     /\ QuadsOfProblemSkills(result[1].problemSkills) = PresenceQuads(solutions)
     /\ QuadsOfUserSkills(result[1].userSkills) = PresenceQuads(solutions)

(***************************************************************************)
(* C4  Idempotent insertion: running the insertion again for a quadruple   *)
(* already inserted leaves both indexes as they are.                       *)
(***************************************************************************)
C4_IdempotentInsertion ==
  \A q \in inserted :
    /\ insert_problemSkills(problemSkills, q[1], q[2], q[3], q[4]) = problemSkills
    /\ insert_userSkills(userSkills, q[1], q[2], q[3], q[4]) = userSkills

\* insertions have been made that share a problem, a featureType and a
\* feature, and others that share only the problem
C4_Witness ==
  /\ \E q1, q2 \in inserted :
       q1[1] = q2[1] /\ q1[2] # q2[2] /\ q1[3] = q2[3] /\ q1[4] = q2[4]
  /\ \E q1, q2 \in inserted : q1[1] = q2[1] /\ q1[3] # q2[3]

(***************************************************************************)
(* C5  Order independence: whatever the order in which the insertions of   *)
(* a batch are made (so whatever the order of the pairs), the indexes      *)
(* returned are the ones the batch determines.                             *)
(***************************************************************************)
ProblemIndexOf(sols) ==
  LET Q == PresenceQuads(sols)
  IN [p \in {q[1] : q \in Q} |->
       [t \in {q[3] : q \in {r \in Q : r[1] = p}} |->
          [f \in {q[4] : q \in {r \in Q : r[1] = p /\ r[3] = t}} |->
             [u \in {q[2] : q \in {r \in Q : r[1] = p /\ r[3] = t /\ r[4] = f}}
                |-> TRUE]]]]

UserIndexOf(sols) ==
  LET Q == PresenceQuads(sols)
  IN [u \in {q[2] : q \in Q} |->
       [t \in {q[3] : q \in {r \in Q : r[2] = u}} |->
          [f \in {q[4] : q \in {r \in Q : r[2] = u /\ r[3] = t}} |->
             [p \in {q[1] : q \in {r \in Q : r[2] = u /\ r[3] = t /\ r[4] = f}}
                |-> TRUE]]]]

C5_OrderIndependence ==
  pc = "par_done" =>
    /\ result[1].problemSkills = ProblemIndexOf(solutions)
    /\ result[1].userSkills = UserIndexOf(solutions)

\* a result for three pairs, two of them with a common feature
C5_Witness ==
  /\ pc = "par_done"
  /\ Cardinality(PairsOf(solutions)) >= 3
  /\ \E q1, q2 \in inserted :
       q1[1] = q2[1] /\ q1[2] # q2[2] /\ q1[3] = q2[3] /\ q1[4] = q2[4]

(***************************************************************************)
(* C6  Receiver-marked call names (as claimed): a call on an attribute     *)
(* access is recorded under another name than the bare call of the same    *)
(* name, and a call on a nested attribute access under another name than   *)
(* a call on a plain one.                                                  *)
(***************************************************************************)
BareCall(attr) == ast_Call(N(attr), <<>>, <<>>)
ObjCall(attr) == ast_Call(ast_Attribute(N("obj"), attr, Load), <<>>, <<>>)

AttributeCalls(tree) ==
  {i \in NodesOfType(tree, {"Call"}) : walk(tree)[i].func.type = "Attribute"}

C6_ReceiverMarkedNames ==
  Analysed =>
    \A i \in AttributeCalls(CurTree) :
      LET n == walk(CurTree)[i]
      IN /\ call_name(n) # call_name(BareCall(n.func.attr))
         /\ n.func.value.type = "Attribute" =>
              call_name(n) # call_name(ObjCall(n.func.attr))

(***************************************************************************)
(* C6 (amended)  A call on an attribute access is recorded under the       *)
(* attribute name alone, the key of the bare call of that name, however    *)
(* deep the receiver is nested.                                            *)
(***************************************************************************)
C6_ReceiverInsensitiveNames ==
  Analysed =>
    \A i \in AttributeCalls(CurTree) :
      LET n == walk(CurTree)[i]
      IN /\ n.func.attr \in DOMAIN analysis.functions
         /\ call_name(n) = n.func.attr
         /\ call_name(n) = call_name(BareCall(n.func.attr))

\* a call a.b.method() on a nested attribute access has been analysed
C6_Witness ==
  /\ Analysed
  /\ pc \in {"for_feature", "for_pair", "return", "done"}
  /\ \E i \in AttributeCalls(CurTree) :
       LET n == walk(CurTree)[i]
       IN /\ n.func.value.type = "Attribute"
          /\ n.func.attr \in DOMAIN analysis.functions

(***************************************************************************)
(* C7  MultiTargetAssignment trigger (as claimed): MultiTargetAssignment   *)
(* counts the assignment nodes with two or more target entries, every      *)
(* assignment node counts as Assignment, and "a, b = 1, 2" yields exactly  *)
(* {Assignment: 1, MultiTargetAssignment: 1}.                              *)
(***************************************************************************)
RECURSIVE TargetEntries(_)
TargetEntries(targets) ==
  IF targets = <<>> THEN 0
  ELSE (IF Head(targets).type \in {"Tuple", "List"}
        THEN Len(Head(targets).elts) ELSE 1) + TargetEntries(Tail(targets))

ScenarioAssign ==
  ast_Module(<<ast_Assign(<<ast_Tuple(<<S("a"), S("b")>>, Store)>>,
                          ast_Tuple(<<ast_Constant, ast_Constant>>, Load))>>)

C7_MultiTargetTrigger ==
  Analysed =>
    /\ Count("Assignment") = Cardinality(NodesOfType(CurTree, {"Assign"}))
    /\ Count("MultiTargetAssignment") =
         Cardinality({i \in NodesOfType(CurTree, {"Assign"}) :
                        TargetEntries(walk(CurTree)[i].targets) >= 2})
    /\ CurTree = ScenarioAssign =>
         analysis.constructs = ("Assignment" :> 1) @@ ("MultiTargetAssignment" :> 1)

(***************************************************************************)
(* C8  Taxonomy overlap: each comprehension node counts once under its own *)
(* kind, once under the Display of its kind (not a generator expression)   *)
(* and once under Comprehension; Filtered- and MultilevelComprehension     *)
(* never exceed Comprehension, which is the sum of the four kinds.         *)
(***************************************************************************)
NumNodes(types) == Cardinality(NodesOfType(CurTree, types))

C8_TaxonomyOverlap ==
  Analysed =>
    /\ Count("ListComprehension") = NumNodes({"ListComp"})
    /\ Count("SetComprehension") = NumNodes({"SetComp"})
    /\ Count("DictionaryComprehension") = NumNodes({"DictComp"})
    /\ Count("GeneratorExpression") = NumNodes({"GeneratorExp"})
    /\ Count("ListDisplay") = NumNodes({"List", "ListComp"})
    /\ Count("SetDisplay") = NumNodes({"Set", "SetComp"})
    /\ Count("DictionaryDisplay") = NumNodes({"Dict", "DictComp"})
    /\ Count("Comprehension") =
         NumNodes({"ListComp", "SetComp", "DictComp", "GeneratorExp"})
    /\ Count("Comprehension") =
         Count("ListComprehension") + Count("SetComprehension") +
         Count("DictionaryComprehension") + Count("GeneratorExpression")
    /\ Count("FilteredComprehension") <= Count("Comprehension")
    /\ Count("MultilevelComprehension") <= Count("Comprehension")
    /\ Count("ListDisplay") >= Count("ListComprehension")
    /\ Count("SetDisplay") >= Count("SetComprehension")
    /\ Count("DictionaryDisplay") >= Count("DictionaryComprehension")

\* a filtered, multilevel list comprehension around a set comprehension has
\* been analysed
C8_Witness ==
  /\ Analysed
  /\ pc \in {"for_feature", "for_pair", "return", "done"}
  /\ Count("ListComprehension") = 1
  /\ Count("ListDisplay") = 1
  /\ Count("SetComprehension") = 1
  /\ Count("SetDisplay") = 1
  /\ Count("Comprehension") = 2
  /\ Count("FilteredComprehension") = 1
  /\ Count("MultilevelComprehension") = 1

(***************************************************************************)
(* C9  Boundary success response (as claimed): a request with a GET or     *)
(* another method, with an empty body or a body holding a batch of valid   *)
(* solutions, never ends in an error, and its response has status 200 and  *)
(* the encoded result as body.                                             *)
(***************************************************************************)
WellFormedRequest ==
  \/ event.body.len = 0
  \/ /\ event.body.doc # <<>>
     /\ ValidPairs(event.body.doc[1]) = PairsOf(event.body.doc[1])

C9_BoundarySuccess ==
  WellFormedRequest =>
    /\ pc # "error"
    /\ pc = "done" =>
         /\ response[1].statusCode = 200
         /\ response[1].body = json_dumps(result[1])

(***************************************************************************)
(* C10  Undecomposable callees (as claimed): every call is recorded once,  *)
(* and a call whose callee is neither a name nor an attribute access is    *)
(* recorded under the name of its callee chain alone, without the          *)
(* identifiers of an inner argument list.                                  *)
(***************************************************************************)
RECURSIVE ChainName(_)
ChainName(callee) ==
  CASE callee.type = "Name" -> callee.id
    [] callee.type = "Attribute" -> callee.attr
    [] callee.type = "Call" -> ChainName(callee.func)
    [] callee.type = "Subscript" -> ChainName(callee.value)
    [] OTHER -> ""

RECURSIVE SumOver(_, _)
SumOver(d, keys) ==
  IF keys = {} THEN 0
  ELSE LET k == CHOOSE k \in keys : TRUE
       IN d[k] + SumOver(d, keys \ {k})

C10_UndecomposableCallees ==
  Analysed =>
    /\ SumOver(analysis.functions, DOMAIN analysis.functions) = NumNodes({"Call"})
    /\ \A i \in NodesOfType(CurTree, {"Call"}) :
         LET n == walk(CurTree)[i]
         IN n.func.type \notin {"Name", "Attribute"} =>
              /\ call_name(n) = ChainName(n.func)
              /\ ChainName(n.func) \in DOMAIN analysis.functions

====
